---- MODULE Spec2Model ----
(***************************************************************************)
(* Model of the Record facade (dist/src/record/record.js) and of the two   *)
(* argument normalizers it uses (src/util/utils.ts).                       *)
(*                                                                         *)
(* JavaScript values are records carrying their typeof tag in field t.     *)
(* Primitive values are [t, v]; request objects are [t |-> "object", ...]  *)
(* with the fields path / callback / triggerNow (subscribe requests) or    *)
(* path / data / callback (set requests).  A thrown Error is the record    *)
(* [t |-> "throw", v |-> message].                                         *)
(***************************************************************************)
EXTENDS Integers, Sequences, FiniteSets

VARIABLES
  subscriptions,  \* facade -> this.subscriptions (sequence of requests)
  last,           \* the last facade call: operation, facade, arguments,
                  \* whether it threw, what it forwarded to this.record,
                  \* and this.subscriptions as it was when the call began
  handlers,       \* listeners the facades registered on the underlying record
  listeners,      \* facade -> event -> listeners registered on the facade
  emitted,        \* the last notification emitted by the underlying record
  delivered,      \* the listener invocations that notification caused
  nargs,          \* an argument list chosen by the caller
  nstart,         \* the startIndex chosen by the caller
  nfn,            \* normalizer applied to it ("set", "subscribe" or "none")
  nresult         \* what that normalizer returned or threw

vars == <<subscriptions, last, handlers, listeners, emitted, delivered,
          nargs, nstart, nfn, nresult>>

-----------------------------------------------------------------------------
(* Bounds *)

MaxSetArgs == 4      \* longest argument list passed to the set normalizer
MaxSubArgs == 6      \* longest argument list passed to normalizeArguments
MaxTracked == 3      \* most entries tracked by all facades together
MaxListeners == 2    \* most listeners registered on all facades together

-----------------------------------------------------------------------------
(* JavaScript values *)

Undef == [t |-> "undefined", v |-> "undefined"]
Null == [t |-> "object", v |-> "null"]
Str(s) == [t |-> "string", v |-> s]
Fn(n) == [t |-> "function", v |-> n]
Bool(b) == [t |-> "boolean", v |-> IF b THEN "true" ELSE "false"]
Num(n) == [t |-> "number", v |-> n]
Obj(n) == [t |-> "object", v |-> n]
False == Bool(FALSE)
Throw(msg) == [t |-> "throw", v |-> msg]

typeof(x) == x.t

\* property read o[k]: a missing property reads as undefined
Prop(o, k) == IF k \in DOMAIN o THEN o[k] ELSE Undef

\* args[i] of a zero-based arguments object
Arg(args, i) == IF i + 1 \in 1..Len(args) THEN args[i + 1] ELSE Undef

\* !x
Falsy(x) ==
  \/ x = Undef
  \/ x = Null
  \/ x = False
  \/ x = Str("")
  \/ x = Num("0")

-----------------------------------------------------------------------------
(* utils.normalizeSetArguments *)

isRootData(data) == data # Undef /\ typeof(data) = "object"
isNestedData(data) == typeof(data) # "function"
isPath(path) == path # Undef /\ typeof(path) = "string"
isCallback(callback) == typeof(callback) = "function"

SetRequest(p, d, c) == [t |-> "object", path |-> p, data |-> d, callback |-> c]

\* the result built when args.length === startIndex + 1
SetResult1(args, s) ==
  SetRequest(Undef,
             IF isRootData(Arg(args, s)) THEN Arg(args, s) ELSE Undef,
             Undef)

\* the result built when args.length === startIndex + 2
SetResult2(args, s) ==
  LET a0 == Arg(args, s)
      a1 == Arg(args, s + 1)
      p == IF ~isCallback(a1) /\ isNestedData(a1)
             THEN (IF isPath(a0) THEN a0 ELSE False)
             ELSE Undef
      d == IF isPath(a0)
             THEN (IF isNestedData(a1) THEN a1 ELSE Undef)
             ELSE (IF isRootData(a0) THEN a0 ELSE Undef)
      c == IF ~isPath(a0)
             THEN (IF isCallback(a1) THEN a1 ELSE False)
             ELSE Undef
  IN SetRequest(p, d, c)

\* the result built when args.length === startIndex + 3
SetResult3(args, s) ==
  SetRequest(IF isPath(Arg(args, s)) THEN Arg(args, s) ELSE False,
             IF isNestedData(Arg(args, s + 1)) THEN Arg(args, s + 1) ELSE False,
             IF isCallback(Arg(args, s + 2)) THEN Arg(args, s + 2) ELSE False)

\* ValidateSet without the check of the callback slot
ValidateSetNoCallbackCheck(result) ==
  IF (result.path # Undef /\ result.path = Str("")) \/ result.path = False
    THEN Throw("Invalid set path argument")
  ELSE IF (result.data = Undef /\ Falsy(result.path)) \/ result.data = False
    THEN Throw("Invalid set data argument")
  ELSE result

\* the checks made on a built result
ValidateSet(result) ==
  IF (result.path # Undef /\ result.path = Str("")) \/ result.path = False
    THEN Throw("Invalid set path argument")
  ELSE IF (result.data = Undef /\ Falsy(result.path)) \/ result.data = False
    THEN Throw("Invalid set data argument")
  ELSE IF result.callback # Undef /\ result.callback = False
    THEN Throw("Invalid set callback argument")
  ELSE result

normalizeSetArguments(args, startIndex) ==
  IF Len(args) = startIndex + 1 THEN ValidateSet(SetResult1(args, startIndex))
  ELSE IF Len(args) = startIndex + 2 THEN ValidateSet(SetResult2(args, startIndex))
  ELSE IF Len(args) = startIndex + 3 THEN ValidateSet(SetResult3(args, startIndex))
  ELSE Throw("Invalid set arguments")

-----------------------------------------------------------------------------
(* utils.normalizeArguments *)

SubRequest(p, c, tn) ==
  [t |-> "object", path |-> p, callback |-> c, triggerNow |-> tn]

\* ScanStep that fills a slot only while it is still unset
ScanStepFirst(result, a) ==
  IF typeof(a) = "string" /\ result.path = Undef THEN [result EXCEPT !.path = a]
  ELSE IF typeof(a) = "function" /\ result.callback = Undef
    THEN [result EXCEPT !.callback = a]
  ELSE IF typeof(a) = "boolean" /\ result.triggerNow = Undef
    THEN [result EXCEPT !.triggerNow = a]
  ELSE result

\* one iteration of the for loop: args[i] overwrites the slot of its type
ScanStep(result, a) ==
  IF typeof(a) = "string" THEN [result EXCEPT !.path = a]
  ELSE IF typeof(a) = "function" THEN [result EXCEPT !.callback = a]
  ELSE IF typeof(a) = "boolean" THEN [result EXCEPT !.triggerNow = a]
  ELSE result

RECURSIVE Scan(_, _, _)
Scan(result, args, i) ==
  IF i >= Len(args) THEN result
  ELSE Scan(ScanStep(result, Arg(args, i)), args, i + 1)

normalizeArguments(args) ==
  IF Len(args) = 1 /\ typeof(Arg(args, 0)) = "object"
    THEN Arg(args, 0)
    ELSE Scan(SubRequest(Undef, Undef, Undef), args, 0)

-----------------------------------------------------------------------------
(* The normalizers applied to argument lists *)

Fn1 == Fn("fn1")
Fn2 == Fn("fn2")
Data == Obj("{x:1}")

SeqsUpTo(S, n) == UNION {[1..k -> S] : k \in 0..n}

SetArgValues ==
  {Undef, Null, Data, Str(""), Str("a"), Fn1, Bool(TRUE), False, Num("5")}
SetArgLists == SeqsUpTo(SetArgValues, MaxSetArgs)

SubArgValues == {Str("a"), Str("b"), Fn1, Fn2, Bool(TRUE), False}
SubArgLists ==
  SeqsUpTo(SubArgValues, MaxSubArgs)
    \cup {<<SubRequest(Str("a"), Fn1, Undef)>>, <<SubRequest(Str("a"), Undef, Undef)>>,
          <<Data>>, <<Num("5")>>, <<Undef, Str("a"), Num("5"), Fn1>>}

\* normalizeSetArguments applied to the chosen arguments
NormalizeSet ==
  /\ nfn = "none"
  /\ nargs \in SetArgLists
  /\ nfn' = "set"
  /\ nresult' = normalizeSetArguments(nargs, nstart)
  /\ UNCHANGED <<subscriptions, last, handlers, listeners, emitted, delivered,
                 nargs, nstart>>

\* normalizeArguments applied to the chosen arguments
NormalizeSubscribe ==
  /\ nfn = "none"
  /\ nargs \in SubArgLists
  /\ nstart = 0
  /\ nfn' = "subscribe"
  /\ nresult' = normalizeArguments(nargs)
  /\ UNCHANGED <<subscriptions, last, handlers, listeners, emitted, delivered,
                 nargs, nstart>>

-----------------------------------------------------------------------------
(* class Record: the facade over one shared underlying record *)

Facades == {"A", "B"}
FacadeRef(f) == [t |-> "object", v |-> f]

RECORD_READY == "ready"
RECORD_DISCARDED == "discarded"
RECORD_DELETED == "deleted"
RECORD_ERROR == "error"
Events == {RECORD_READY, RECORD_DISCARDED, RECORD_DELETED, RECORD_ERROR}
ListenerIds == {"l1", "l2"}

\* a call made on this.record
Call(op, arg) == [op |-> op, arg |-> arg]

NoCall ==
  [op |-> "none", facade |-> "none", args |-> <<>>, threw |-> FALSE,
   fwd |-> <<>>, before |-> <<>>]
NoEmit == [event |-> "none", payload |-> <<>>]

\* Wiring whose "ready" handler binds no facade reference
WiringUnbound(f) ==
  { [on |-> e, facade |-> f, emit |-> e, bound |-> <<>>] : e \in Events }

\* the four this.record.on(EVENT, this.emit.bind(this, EVENT[, this])) of
\* the constructor: listening on `on`, emitting `emit` preceded by `bound`
Wiring(f) ==
  { [on |-> RECORD_READY, facade |-> f, emit |-> RECORD_READY, bound |-> <<FacadeRef(f)>>],
    [on |-> RECORD_DISCARDED, facade |-> f, emit |-> RECORD_DISCARDED, bound |-> <<>>],
    [on |-> RECORD_DELETED, facade |-> f, emit |-> RECORD_DELETED, bound |-> <<>>],
    [on |-> RECORD_ERROR, facade |-> f, emit |-> RECORD_ERROR, bound |-> <<>>] }

Constructed == {h.facade : h \in handlers}

Tracked(subs) == Len(subs["A"]) + Len(subs["B"])
Registered(ls) ==
  Cardinality({x \in Facades \X Events \X ListenerIds : x[3] \in ls[x[1]][x[2]]})

\* new Record(record)
Construct(f) ==
  /\ f \notin Constructed
  /\ subscriptions' = [subscriptions EXCEPT ![f] = <<>>]
  /\ handlers' = handlers \cup Wiring(f)
  /\ emitted' = NoEmit
  /\ delivered' = {}
  /\ UNCHANGED <<last, listeners, nfn, nargs, nstart, nresult>>

\* Emitter.on, inherited by the facade
On(f, event, l) ==
  /\ f \in Constructed
  /\ l \notin listeners[f][event]
  /\ Registered(listeners) < MaxListeners
  /\ listeners' = [listeners EXCEPT ![f][event] = @ \cup {l}]
  /\ emitted' = NoEmit
  /\ delivered' = {}
  /\ UNCHANGED <<subscriptions, last, handlers, nfn, nargs, nstart, nresult>>

\* Emitter.emit on facade f: every listener of the event is called with args
Emit(f, event, args) ==
  { [facade |-> f, listener |-> l, event |-> event, args |-> args] :
      l \in listeners[f][event] }

\* the underlying record emits a lifecycle event: each handler registered on
\* it for that event runs, i.e. the bound emit of its facade
RecordEmits(event, payload) ==
  /\ emitted' = [event |-> event, payload |-> payload]
  /\ delivered' =
       UNION { Emit(h.facade, h.emit, h.bound \o payload) :
                 h \in {g \in handlers : g.on = event} }
  /\ UNCHANGED <<subscriptions, last, handlers, listeners, nfn, nargs, nstart, nresult>>

Done(op, f, args, threw, fwd) ==
  /\ last' = [op |-> op, facade |-> f, args |-> args, threw |-> threw,
              fwd |-> fwd, before |-> subscriptions[f]]
  /\ UNCHANGED <<handlers, listeners, emitted, delivered, nfn, nargs, nstart, nresult>>

\* get(path)
Get(f, path) ==
  /\ Done("get", f, <<path>>, FALSE, <<Call("get", path)>>)
  /\ UNCHANGED subscriptions

\* what set / setWithAck forward: nothing when the normalizer throws
ForwardSet(op, args) ==
  LET parameters == normalizeSetArguments(args, 0)
  IN IF typeof(parameters) = "throw" THEN <<>> ELSE <<Call(op, parameters)>>

\* set(path, data, callback)
Set(f, args) ==
  /\ Done("set", f, args, ForwardSet("set", args) = <<>>, ForwardSet("set", args))
  /\ UNCHANGED subscriptions

\* setWithAck(path, data, callback)
SetWithAck(f, args) ==
  /\ Done("setWithAck", f, args, ForwardSet("setWithAck", args) = <<>>,
          ForwardSet("setWithAck", args))
  /\ UNCHANGED subscriptions

\* Push onto a list shared by all facades
PushShared(subs, f, parameters) == [g \in Facades |-> Append(subs[g], parameters)]

\* this.subscriptions.push(parameters)
Push(subs, f, parameters) == [subs EXCEPT ![f] = Append(@, parameters)]

\* subscribe(path, callback, triggerNow)
Subscribe(f, args) ==
  LET parameters == normalizeArguments(args)
  IN /\ Tracked(subscriptions) < MaxTracked
     /\ subscriptions' = Push(subscriptions, f, parameters)
     /\ Done("subscribe", f, args, FALSE, <<Call("subscribe", parameters)>>)

\* Keep that compares the path only
KeepByPath(subscription, parameters) ==
  Prop(subscription, "path") # Prop(parameters, "path")

\* the predicate of the filter in unsubscribe
Keep(subscription, parameters) ==
  \/ Prop(subscription, "path") # Prop(parameters, "path")
  \/ Prop(subscription, "callback") # Prop(parameters, "callback")

\* a filter that drops the first matching entry only
RECURSIVE FilterFirst(_, _)
FilterFirst(subs, parameters) ==
  IF subs = <<>> THEN <<>>
  ELSE IF Keep(Head(subs), parameters)
    THEN <<Head(subs)>> \o FilterFirst(Tail(subs), parameters)
    ELSE Tail(subs)

\* this.subscriptions.filter(...)
RECURSIVE Filter(_, _)
Filter(subs, parameters) ==
  IF subs = <<>> THEN <<>>
  ELSE (IF Keep(Head(subs), parameters) THEN <<Head(subs)>> ELSE <<>>)
         \o Filter(Tail(subs), parameters)

\* unsubscribe(path, callback)
Unsubscribe(f, args) ==
  LET parameters == normalizeArguments(args)
  IN /\ subscriptions' = [subscriptions EXCEPT ![f] = Filter(@, parameters)]
     /\ Done("unsubscribe", f, args, FALSE, <<Call("unsubscribe", parameters)>>)

\* the calls discard() makes on this.record
DiscardCalls(subs, f) ==
  [i \in 1..Len(subs[f]) |-> Call("unsubscribe", subs[f][i])]
    \o <<Call("discard", Undef)>>

\* discard()
Discard(f) ==
  /\ Done("discard", f, <<>>, FALSE, DiscardCalls(subscriptions, f))
  /\ UNCHANGED subscriptions

\* delete that also empties the tracked list
DeleteClearing(f, callback) ==
  /\ Done("delete", f, <<callback>>, FALSE, <<Call("delete", callback)>>)
  /\ subscriptions' = [subscriptions EXCEPT ![f] = <<>>]

\* delete(callback)
Delete(f, callback) ==
  /\ Done("delete", f, <<callback>>, FALSE, <<Call("delete", callback)>>)
  /\ UNCHANGED subscriptions

\* setMergeStrategy(mergeStrategy)
SetMergeStrategy(f, mergeStrategy) ==
  /\ Done("setMergeStrategy", f, <<mergeStrategy>>, FALSE,
          <<Call("setMergeStrategy", mergeStrategy)>>)
  /\ UNCHANGED subscriptions

-----------------------------------------------------------------------------
(* Specifications *)

\* argument lists the facade is called with
SubCallArgs ==
  { <<Str("a"), Fn1>>, <<Fn1, Str("a"), Bool(TRUE)>>, <<Str("a"), Fn2>>,
    <<Str("b"), Fn1>>, <<Str("a")>>, <<SubRequest(Str("a"), Fn1, Undef)>> }
SetCallArgs == { <<Str("a"), Data>>, <<Data, Fn1>>, <<>> }
Payloads == {<<>>, <<Str("msg")>>}

\* both facades constructed over the same record, nothing called yet
Init ==
  /\ subscriptions = [f \in Facades |-> <<>>]
  /\ last = NoCall
  /\ handlers = UNION {Wiring(f) : f \in Facades}
  /\ listeners = [f \in Facades |-> [e \in Events |-> {}]]
  /\ emitted = NoEmit
  /\ delivered = {}
  /\ nfn = "none"
  /\ nargs = <<>>
  /\ nstart = 0
  /\ nresult = Undef

\* no facade constructed yet
InitEvents ==
  /\ subscriptions = [f \in Facades |-> <<>>]
  /\ last = NoCall
  /\ handlers = {}
  /\ listeners = [f \in Facades |-> [e \in Events |-> {}]]
  /\ emitted = NoEmit
  /\ delivered = {}
  /\ nfn = "none"
  /\ nargs = <<>>
  /\ nstart = 0
  /\ nresult = Undef

\* the facade's methods, called on either facade in any order
Next ==
  \/ \E f \in Facades, args \in SubCallArgs : Subscribe(f, args)
  \/ \E f \in Facades, args \in SubCallArgs : Unsubscribe(f, args)
  \/ \E f \in Facades : Discard(f)
  \/ \E f \in Facades, path \in {Undef, Str("a")} : Get(f, path)
  \/ \E f \in Facades, args \in SetCallArgs : Set(f, args)
  \/ \E f \in Facades, args \in SetCallArgs : SetWithAck(f, args)
  \/ \E f \in Facades, callback \in {Undef, Fn1} : Delete(f, callback)
  \/ \E f \in Facades : SetMergeStrategy(f, Fn("merge"))

Spec == Init /\ [][Next]_vars

\* the state Init with any argument list chosen for set / setWithAck
InitSet ==
  /\ subscriptions = [f \in Facades |-> <<>>]
  /\ last = NoCall
  /\ handlers = UNION {Wiring(f) : f \in Facades}
  /\ listeners = [f \in Facades |-> [e \in Events |-> {}]]
  /\ emitted = NoEmit
  /\ delivered = {}
  /\ nargs \in SetArgLists
  /\ nstart = 0
  /\ nfn = "none"
  /\ nresult = Undef

\* set and setWithAck called with the chosen argument list
NextSet ==
  \/ \E f \in Facades : Set(f, nargs)
  \/ \E f \in Facades : SetWithAck(f, nargs)

SpecSet == InitSet /\ [][NextSet]_vars

\* construction, listener registration and lifecycle events
NextEvents ==
  \/ \E f \in Facades : Construct(f)
  \/ \E f \in Facades, e \in Events, l \in ListenerIds : On(f, e, l)
  \/ \E e \in Events, payload \in Payloads : RecordEmits(e, payload)

SpecEvents == InitEvents /\ [][NextEvents]_vars

\* any argument list and startIndex chosen for a normalizer
InitNorm ==
  /\ subscriptions = [f \in Facades |-> <<>>]
  /\ last = NoCall
  /\ handlers = UNION {Wiring(f) : f \in Facades}
  /\ listeners = [f \in Facades |-> [e \in Events |-> {}]]
  /\ emitted = NoEmit
  /\ delivered = {}
  /\ \/ nargs \in SetArgLists /\ nstart \in {0, 1}
     \/ nargs \in SubArgLists /\ nstart = 0
  /\ nfn = "none"
  /\ nresult = Undef

\* the normalizers as pure functions
NextNorm ==
  \/ NormalizeSet
  \/ NormalizeSubscribe

SpecNorm == InitNorm /\ [][NextNorm]_vars

-----------------------------------------------------------------------------
(* Properties *)

Callee == last.facade
Request == normalizeArguments(last.args)

\* same (path, callback) pair
SamePair(a, b) ==
  /\ Prop(a, "path") = Prop(b, "path")
  /\ Prop(a, "callback") = Prop(b, "callback")

\* number of entries of subs with the pair of request
Count(subs, request) ==
  Cardinality({i \in DOMAIN subs : SamePair(subs[i], request)})

Range(seq) == {seq[i] : i \in DOMAIN seq}

\* the requests of the unsubscribe calls among calls, in order
UnsubscribesOf(calls) ==
  LET IsUnsubscribe(c) == c.op = "unsubscribe"
      picked == SelectSeq(calls, IsUnsubscribe)
  IN [i \in DOMAIN picked |-> picked[i].arg]

\* C1: discard() forwards one unsubscribe per tracked entry and leaves the
\* facade's tracked list empty.
C1_DiscardDrains ==
  last.op = "discard" =>
    /\ UnsubscribesOf(last.fwd) = last.before
    /\ subscriptions[Callee] = <<>>

\* C2 (as claimed): subscribing adds one entry for the pair, and when a pair
\* is tracked twice one unsubscribe of it leaves exactly one entry for it.
C2_RemovesExactlyOne ==
  /\ last.op = "subscribe" =>
       Count(subscriptions[Callee], Request) = Count(last.before, Request) + 1
  /\ (last.op = "unsubscribe" /\ Count(last.before, Request) = 2) =>
       Count(subscriptions[Callee], Request) = 1

\* C2 (amended): subscribing adds one entry for the pair, and when a pair is
\* tracked twice one unsubscribe of it leaves no entry for it.
C2_RemovesBoth ==
  /\ last.op = "subscribe" =>
       Count(subscriptions[Callee], Request) = Count(last.before, Request) + 1
  /\ (last.op = "unsubscribe" /\ Count(last.before, Request) = 2) =>
       Count(subscriptions[Callee], Request) = 0

C2_Witness ==
  /\ last.op = "unsubscribe"
  /\ Count(last.before, Request) = 2
  /\ Len(last.before) = 2
  /\ subscriptions[Callee] = <<>>

\* C3: subscribe without a callable callback throws, tracks nothing and
\* forwards nothing, so every tracked entry has a callable callback.
C3_CallbackRequired ==
  /\ (last.op = "subscribe" /\ typeof(Prop(Request, "callback")) # "function") =>
       /\ last.threw
       /\ last.fwd = <<>>
       /\ subscriptions[Callee] = last.before
  /\ \A f \in Facades : \A i \in DOMAIN subscriptions[f] :
       typeof(Prop(subscriptions[f][i], "callback")) = "function"

\* C4: a call on one facade leaves the other facade's tracked list
\* unchanged; an entry enters a facade's list only by that facade's own
\* subscribe; discard forwards unsubscribes for exactly the entries of the
\* discarding facade, never for an entry only the other facade tracks.
C4_Independent ==
  [][ /\ \A g \in Facades \ {last'.facade} : subscriptions'[g] = subscriptions[g]
      /\ \A g \in Facades :
           Len(subscriptions'[g]) > Len(subscriptions[g]) =>
             /\ last'.op = "subscribe"
             /\ last'.facade = g
             /\ subscriptions'[g] = Append(subscriptions[g], last'.fwd[1].arg)
      /\ last'.op = "discard" =>
           /\ UnsubscribesOf(last'.fwd) = subscriptions[last'.facade]
           /\ \A g \in Facades \ {last'.facade} :
                \A e \in Range(subscriptions[g]) \ Range(subscriptions[last'.facade]) :
                  e \notin Range(UnsubscribesOf(last'.fwd))
    ]_vars

C4_Witness ==
  /\ last.op = "discard"
  /\ Callee = "A"
  /\ Len(last.fwd) = 3
  /\ subscriptions["B"] # <<>>
  /\ subscriptions["B"][1] \notin Range(subscriptions["A"])

\* C5: get, set, setWithAck, setMergeStrategy and delete leave every
\* tracked list unchanged, also when set / setWithAck throw.
C5_Frame ==
  [][ last'.op \in {"get", "set", "setWithAck", "setMergeStrategy", "delete"} =>
        subscriptions' = subscriptions ]_vars

C5_Witness ==
  /\ last.op = "set"
  /\ last.threw
  /\ Len(subscriptions[Callee]) = 2
  /\ subscriptions[Callee] = last.before

\* C6: with a non-empty string path, any data that is not a function is
\* accepted: (p, d) gives {p, d, no callback}, (p, d, fn) gives {p, d, fn}.
C6_AnyNonFunctionData ==
  (/\ nfn = "set"
   /\ nstart = 0
   /\ Len(nargs) \in {2, 3}
   /\ typeof(nargs[1]) = "string"
   /\ nargs[1] # Str("")
   /\ typeof(nargs[2]) # "function"
   /\ Len(nargs) = 3 => typeof(nargs[3]) = "function") =>
     nresult = SetRequest(nargs[1], nargs[2], Arg(nargs, 2))

\* the argument lists the set normalizer is specified to reject
InvalidSetCall(args) ==
  \/ Len(args) = 0
  \/ Len(args) > 3
  \/ args[1] = Str("")
  \/ Len(args) = 1 /\ typeof(args[1]) # "object"
  \/ Len(args) = 2 /\ typeof(args[1]) = "string" /\ typeof(args[2]) = "function"
  \/ Len(args) = 2 /\ typeof(args[1]) \notin {"string", "object"}
  \/ Len(args) = 2 /\ typeof(args[1]) = "object" /\ typeof(args[2]) # "function"
  \/ Len(args) = 3 /\ typeof(args[1]) # "string"
  \/ Len(args) = 3 /\ typeof(args[2]) = "function"
  \/ Len(args) = 3 /\ typeof(args[3]) # "function"

\* a request that satisfies the invariant of a canonical set request
ValidSetRequest(r) ==
  /\ r.path = Undef \/ (typeof(r.path) = "string" /\ r.path # Str(""))
  /\ typeof(r.data) # "function"
  /\ r.path = Undef => (typeof(r.data) = "object" /\ r.data # Undef)
  /\ r.callback = Undef \/ typeof(r.callback) = "function"

\* C7: a set / setWithAck call whose arguments the normalizer rejects throws
\* and forwards nothing; a call that is forwarded is forwarded once, to the
\* operation of the same name, with a valid request.
C7_RejectedNotForwarded ==
  last.op \in {"set", "setWithAck"} =>
    /\ (InvalidSetCall(last.args)
          \/ typeof(normalizeSetArguments(last.args, 0)) = "throw") =>
         (last.threw /\ last.fwd = <<>>)
    /\ ~last.threw =>
         /\ Len(last.fwd) = 1
         /\ last.fwd[1].op = last.op
         /\ ValidSetRequest(last.fwd[1].arg)

C7_Witness ==
  /\ last.op = "setWithAck"
  /\ last.args = <<Str("a"), Data, Data>>
  /\ last.threw
  /\ last.fwd = <<>>

\* the first / last argument of the given type, undefined when there is none
FirstOf(args, type) ==
  LET I == {i \in DOMAIN args : typeof(args[i]) = type}
  IN IF I = {} THEN Undef ELSE args[CHOOSE i \in I : \A j \in I : i <= j]
LastOf(args, type) ==
  LET I == {i \in DOMAIN args : typeof(args[i]) = type}
  IN IF I = {} THEN Undef ELSE args[CHOOSE i \in I : \A j \in I : i >= j]

SingleObject(args) == Len(args) = 1 /\ typeof(args[1]) = "object"

\* C8 (as claimed): path, callback and triggerNow are the first string,
\* function and boolean argument.
C8_FirstWins ==
  (nfn = "subscribe" /\ ~SingleObject(nargs)) =>
    nresult = SubRequest(FirstOf(nargs, "string"), FirstOf(nargs, "function"),
                         FirstOf(nargs, "boolean"))

\* C8 (amended): path, callback and triggerNow are the last string,
\* function and boolean argument, and are unset when there is none.
C8_LastWins ==
  (nfn = "subscribe" /\ ~SingleObject(nargs)) =>
    nresult = SubRequest(LastOf(nargs, "string"), LastOf(nargs, "function"),
                         LastOf(nargs, "boolean"))

C8_Witness ==
  /\ nfn = "subscribe"
  /\ nargs = <<Str("a"), Fn1, Str("b"), Fn2, Bool(TRUE), False>>
  /\ nresult = SubRequest(Str("b"), Fn2, False)

\* C9: a lifecycle event of the underlying record reaches every listener
\* registered on every constructed facade for that event; a "ready" listener
\* receives the facade followed by the payload, the others the payload.
C9_Delivered ==
  emitted.event # "none" =>
    \A f \in Constructed : \A l \in listeners[f][emitted.event] :
      [facade |-> f, listener |-> l, event |-> emitted.event,
       args |-> IF emitted.event = RECORD_READY
                  THEN <<FacadeRef(f)>> \o emitted.payload
                  ELSE emitted.payload] \in delivered

C9_Witness ==
  /\ emitted.event = RECORD_READY
  /\ Constructed = Facades
  /\ \E d \in delivered : d.facade = "A" /\ d.args[1] = FacadeRef("A")
  /\ \E d \in delivered : d.facade = "B" /\ d.args[1] = FacadeRef("B")

\* C10: unsubscribe removes every entry with the request's (path, callback)
\* pair and no other, keeps the rest in order, and forwards exactly one
\* unsubscribe carrying the request, also when nothing matched.
C10_RemovesAllMatches ==
  last.op = "unsubscribe" =>
    LET Other(e) == ~SamePair(e, Request)
    IN /\ subscriptions[Callee] = SelectSeq(last.before, Other)
       /\ ~last.threw
       /\ last.fwd = <<Call("unsubscribe", Request)>>

C10_Witness ==
  /\ last.op = "unsubscribe"
  /\ Len(last.before) = 3
  /\ Count(last.before, Request) = 2
  /\ Len(subscriptions[Callee]) = 1

====
